---- MODULE Spec2Model ----
(***************************************************************************)
(* ACDEI bootstrap layer: the configuration manager (src/config.py) and    *)
(* the Firebase connection manager (src/firebase_setup.py).                *)
(*                                                                         *)
(* Python values are records [ty, v] with v an integer: an int is its      *)
(* value, a float is its value in ten-thousandths (Scale), a str is the    *)
(* index of the string in a string table, None is v = 0.  JSON text is a   *)
(* record [tok, frac, v]: a number token with or without a fraction part,  *)
(* a string token, null, or "absent" for a key the object does not hold.   *)
(***************************************************************************)
EXTENDS Integers, Sequences, FiniteSets, TLC

VARIABLES
    file,        \* content of the file at config_path
    cm,          \* the ConfigManager constructed first
    saveResult,  \* outcome of cm.save_config(): "none", "ok", "raised"
    beforeSave,  \* cm's three sections as they were when save_config was called
    cm2,         \* a ConfigManager constructed on the same path after the save
    env,         \* os.environ['FIREBASE_CREDENTIALS_JSON']
    credPath,    \* db_config.credentials_path as get_firebase_credentials reads it
    credFile,    \* the file at credentials_path
    credResult,  \* outcome of get_firebase_credentials()
    clsInstance, \* FirebaseManager._instance (0 is None)
    nObjects,    \* FirebaseManager objects allocated so far
    initialized, \* per object: "unset" (no attribute), "False"
    pc,          \* per caller: its position in FirebaseManager()
    tmp,         \* per caller: the object super().__new__ returned, not yet stored
    self,        \* per caller: the object __new__ returned (0 before)
    status,      \* connection state machine of section 4.2
    handle,      \* the cached connection handle (0 is none)
    constructions, \* client constructions performed so far
    attempts,    \* attempts made by the GetHandle call in progress
    calls,       \* GetHandle calls made so far
    failures,    \* GetHandle calls that failed so far
    credsOk      \* whether credential resolution currently yields material

cfgVars == <<file, cm, saveResult, beforeSave, cm2>>
credVars == <<env, credPath, credFile, credResult>>
connVars == <<clsInstance, nObjects, initialized, pc, tmp, self>>
handleVars == <<status, handle, constructions, attempts, calls, failures, credsOk>>
vars == <<cfgVars, credVars, connVars, handleVars>>

----------------------------------------------------------------------------
(* Bounds of the model *)

\* keys a configuration file sets, over its three sections
MaxKeys == 3
\* concurrent callers of FirebaseManager()
NThreads == 3
\* GetHandle calls made in a run
MaxCalls == 5

----------------------------------------------------------------------------
(* Python values and JSON tokens *)

\* a float is held in ten-thousandths
Scale == 10000

PyInt(n) == [ty |-> "int", v |-> n]
PyFloat(n) == [ty |-> "float", v |-> n]
PyStr(i) == [ty |-> "str", v |-> i]
PyNone == [ty |-> "NoneType", v |-> 0]

JNum(n) == [tok |-> "number", frac |-> FALSE, v |-> n]
JFrac(n) == [tok |-> "number", frac |-> TRUE, v |-> n]
JStr(i) == [tok |-> "string", frac |-> FALSE, v |-> i]
JNull == [tok |-> "null", frac |-> FALSE, v |-> 0]
JAbsent == [tok |-> "absent", frac |-> FALSE, v |-> 0]

\* json.load on one value: a number with a fraction part is a float, one without is an int
JsonLoadValue(t) ==
    CASE t.tok = "number" /\ t.frac -> PyFloat(t.v)
      [] t.tok = "number" /\ ~t.frac -> PyInt(t.v)
      [] t.tok = "string" -> PyStr(t.v)
      [] OTHER -> PyNone

\* json.dump on one value: a float is written with its fraction part (repr), an int without
JsonDumpValue(x) ==
    CASE x.ty = "int" -> JNum(x.v)
      [] x.ty = "float" -> JFrac(x.v)
      [] x.ty = "str" -> JStr(x.v)
      [] OTHER -> JNull

IsNum(x) == x.ty \in {"int", "float"}
Num(x) == IF x.ty = "int" THEN x.v * Scale ELSE x.v

\* Python's x > n, x >= n, x <= n and n < x against an int literal n:
\* "TypeError" when x is a str or None
PyGt(x, n) == IF ~IsNum(x) THEN "TypeError" ELSE IF Num(x) > n * Scale THEN "True" ELSE "False"
PyGe(x, n) == IF ~IsNum(x) THEN "TypeError" ELSE IF Num(x) >= n * Scale THEN "True" ELSE "False"
PyLt(x, n) == IF ~IsNum(x) THEN "TypeError" ELSE IF Num(x) < n * Scale THEN "True" ELSE "False"
PyLe(x, n) == IF ~IsNum(x) THEN "TypeError" ELSE IF Num(x) <= n * Scale THEN "True" ELSE "False"
\* the chained comparison lo < x <= hi (lo <= x <= hi when closed): the second
\* comparison is evaluated only when the first is True
PyChain(loResult, hiResult) == IF loResult = "True" THEN hiResult ELSE loResult

----------------------------------------------------------------------------
(* The three dataclasses and their defaults *)

\* string table: 1 "acdei-system", 2 "acdei_", 3 another project id,
\* 4 a credentials path, 5 another prefix, 6 a numeral written as a string
DatabaseConfig ==
    [project_id |-> PyStr(1), credentials_path |-> PyNone, collection_prefix |-> PyStr(2),
     timeout_seconds |-> PyInt(30), max_retries |-> PyInt(3)]

ProcessingConfig ==
    [batch_size |-> PyInt(1000), max_workers |-> PyInt(4), chunk_size |-> PyInt(100),
     default_sample_size |-> PyInt(10000), similarity_threshold |-> PyFloat(7000),
     correlation_threshold |-> PyFloat(3000)]

GraphConfig ==
    [min_node_degree |-> PyInt(2), max_cluster_size |-> PyInt(50),
     prune_threshold |-> PyFloat(1000), community_resolution |-> PyFloat(10000)]

Fields(section) ==
    CASE section = "database" -> DOMAIN DatabaseConfig
      [] section = "processing" -> DOMAIN ProcessingConfig
      [] OTHER -> DOMAIN GraphConfig

SectionNames == {"database", "processing", "graph"}

\* a key no dataclass declares
Unknown == "bogus"

----------------------------------------------------------------------------
(* The configuration file *)

SectionKeys(section) == Fields(section) \cup {Unknown}

\* a section of the document that is not there, and one that is there with no key
NoSection(section) == [present |-> FALSE, kv |-> [k \in SectionKeys(section) |-> JAbsent]]

NoData == [s \in SectionNames |-> NoSection(s)]

MissingFile == [kind |-> "missing", data |-> NoData]
\* text that is not JSON
MalformedFile == [kind |-> "malformed", data |-> NoData]
\* bytes that are not text in the locale's encoding
UndecodableFile == [kind |-> "undecodable", data |-> NoData]
EmptyObjectFile == [kind |-> "object", data |-> NoData]

\* the values a file may give a key
Candidates(key) ==
    CASE key = "project_id" -> {JStr(3)}
      [] key = "credentials_path" -> {JStr(4), JNull}
      [] key = "collection_prefix" -> {JStr(5)}
      [] key = "timeout_seconds" -> {JNum(0), JNum(60), JStr(6)}
      [] key = "max_retries" -> {JNum(-1), JNum(0), JStr(6)}
      [] key = "batch_size" -> {JNum(0), JNum(500), JStr(6)}
      [] key = "max_workers" -> {JNum(0), JNum(8)}
      [] key = "chunk_size" -> {JNum(-1), JNum(50)}
      [] key = "default_sample_size" -> {JNum(0), JNum(500)}
      [] key = "similarity_threshold" ->
            {JFrac(0), JFrac(1), JFrac(10000), JFrac(15000), JNum(1), JStr(6)}
      [] key = "correlation_threshold" ->
            {JFrac(15000), JFrac(-15000), JFrac(10000), JFrac(-10000), JFrac(0), JNull}
      [] key = "min_node_degree" -> {JNum(-1), JNum(0)}
      [] key = "max_cluster_size" -> {JNum(0), JNum(10)}
      [] key = "prune_threshold" -> {JFrac(5000)}
      [] key = "community_resolution" -> {JFrac(20000), JNum(2)}
      [] OTHER -> {JNum(1)}

\* one edit of a document: set a key of a section, or (key "") put the section there
Edits ==
    UNION {{<<s, k, t>> : t \in Candidates(k)} : <<s, k>> \in
              UNION {{<<s, k>> : k \in SectionKeys(s)} : s \in SectionNames}}
    \cup {<<s, "", JAbsent>> : s \in SectionNames}

ApplyEdit(f, e) ==
    IF e[2] = "" THEN [f EXCEPT !.data[e[1]].present = TRUE]
    ELSE [f EXCEPT !.data[e[1]].present = TRUE, !.data[e[1]].kv[e[2]] = e[3]]

\* the JSON documents that set at most n keys
RECURSIVE ObjectFiles(_)
ObjectFiles(n) ==
    IF n = 0 THEN {EmptyObjectFile}
    ELSE LET prev == ObjectFiles(n - 1)
         IN prev \cup {ApplyEdit(f, e) : f \in prev, e \in Edits}

ConfigFiles == {MissingFile, MalformedFile, UndecodableFile} \cup ObjectFiles(MaxKeys)

----------------------------------------------------------------------------
(* ConfigManager *)

Defaults ==
    [db_config |-> DatabaseConfig, proc_config |-> ProcessingConfig, graph_config |-> GraphConfig]

NoExc == [kind |-> "none", at |-> "none"]

\* DatabaseConfig(**d) and its like: a key that is no field of the dataclass is a TypeError
RaisesTypeError(sec) == sec.kv[Unknown] # JAbsent

\* DatabaseConfig(**d): each key given takes the document's value, each other its default
FromSection(defaults, sec) ==
    [k \in DOMAIN defaults |->
        IF sec.kv[k] = JAbsent THEN defaults[k] ELSE JsonLoadValue(sec.kv[k])]

\* the statements of the try block, in order; the first TypeError ends the block
LoadSections(d, b) ==
    LET stop1 == d.database.present /\ RaisesTypeError(d.database)
        b1 == IF d.database.present /\ ~stop1
              THEN [b EXCEPT !.db_config = FromSection(DatabaseConfig, d.database)] ELSE b
        stop2 == stop1 \/ (d.processing.present /\ RaisesTypeError(d.processing))
        b2 == IF d.processing.present /\ ~stop2
              THEN [b1 EXCEPT !.proc_config = FromSection(ProcessingConfig, d.processing)] ELSE b1
        stop3 == stop2 \/ (d.graph.present /\ RaisesTypeError(d.graph))
        b3 == IF d.graph.present /\ ~stop3
              THEN [b2 EXCEPT !.graph_config = FromSection(GraphConfig, d.graph)] ELSE b2
    IN b3

\* _load_config: the bundle after it and the exception it lets through
LoadConfig(f, b) ==
    CASE f.kind = "missing" -> [exc |-> NoExc, b |-> b]
      [] f.kind = "malformed" -> [exc |-> NoExc, b |-> b]
      [] f.kind = "undecodable" -> [exc |-> [kind |-> "UnicodeDecodeError", at |-> "load"], b |-> b]
      [] OTHER -> [exc |-> NoExc, b |-> LoadSections(f.data, b)]

\* the value each assert statement reads
Checked(b, name) ==
    CASE name = "timeout_seconds" -> b.db_config.timeout_seconds
      [] name = "max_retries" -> b.db_config.max_retries
      [] name = "similarity_threshold" -> b.proc_config.similarity_threshold
      [] name = "correlation_threshold" -> b.proc_config.correlation_threshold
      [] name = "batch_size" -> b.proc_config.batch_size
      [] name = "min_node_degree" -> b.graph_config.min_node_degree
      [] OTHER -> b.graph_config.max_cluster_size

\* the condition of each assert statement: "True", "False" or "TypeError"
Condition(b, name) ==
    LET x == Checked(b, name)
    IN CASE name = "timeout_seconds" -> PyGt(x, 0)
         [] name = "max_retries" -> PyGe(x, 0)
         [] name = "similarity_threshold" -> PyChain(PyGt(x, 0), PyLe(x, 1))
         [] name = "correlation_threshold" -> PyChain(PyGe(x, -1), PyLe(x, 1))
         [] name = "batch_size" -> PyGt(x, 0)
         [] name = "min_node_degree" -> PyGe(x, 0)
         [] OTHER -> PyGt(x, 0)

AssertOrderSwapped ==
    <<"timeout_seconds", "max_retries", "batch_size", "similarity_threshold",
      "correlation_threshold", "min_node_degree", "max_cluster_size">>

\* the assert statements of _validate_configs, in the order they are written
AssertOrder ==
    <<"timeout_seconds", "max_retries", "similarity_threshold", "correlation_threshold",
      "batch_size", "min_node_degree", "max_cluster_size">>

RECURSIVE RunAsserts(_, _)
RunAsserts(b, i) ==
    IF i > Len(AssertOrder) THEN NoExc
    ELSE LET r == Condition(b, AssertOrder[i])
         IN IF r = "True" THEN RunAsserts(b, i + 1)
            ELSE [kind |-> IF r = "False" THEN "AssertionError" ELSE "TypeError",
                  at |-> AssertOrder[i]]

\* _validate_configs: the exception it raises, NoExc when it returns
ValidateConfigs(b) == RunAsserts(b, 1)

Manager(st, exc, b) ==
    [status |-> st, exc |-> exc, db_config |-> b.db_config, proc_config |-> b.proc_config,
     graph_config |-> b.graph_config]

NoManager == Manager("none", NoExc, Defaults)

Bundle(m) ==
    [db_config |-> m.db_config, proc_config |-> m.proc_config, graph_config |-> m.graph_config]

\* ConfigManager.__init__: defaults, then _load_config, then _validate_configs. A manager
\* whose __init__ raised keeps the sections it had when the exception left.
NewConfigManager(f) ==
    LET l == LoadConfig(f, Defaults)
    IN IF l.exc # NoExc THEN Manager("raised", l.exc, l.b)
       ELSE LET v == ValidateConfigs(l.b)
            IN Manager(IF v = NoExc THEN "ok" ELSE "raised", v, l.b)

\* one section's __dict__ as json.dump writes it: every field, no other key
DumpSection(section, cfg) ==
    [present |-> TRUE,
     kv |-> [k \in SectionKeys(section) |->
                IF k = Unknown THEN JAbsent ELSE JsonDumpValue(cfg[k])]]

SavedFileNoGraph(m) ==
    [kind |-> "object",
     data |-> [s \in SectionNames |->
                  CASE s = "database" -> DumpSection(s, m.db_config)
                    [] s = "processing" -> DumpSection(s, m.proc_config)
                    [] OTHER -> NoSection(s)]]

\* the document save_config writes
SavedFile(m) ==
    [kind |-> "object",
     data |-> [s \in SectionNames |->
                  CASE s = "database" -> DumpSection(s, m.db_config)
                    [] s = "processing" -> DumpSection(s, m.proc_config)
                    [] OTHER -> DumpSection(s, m.graph_config)]]

----------------------------------------------------------------------------
(* ConfigManager.get_firebase_credentials *)

\* values of FIREBASE_CREDENTIALS_JSON: not set, the empty string, text that is not
\* JSON, a JSON object, the JSON text null
EnvValues == {"unset", "empty", "malformed", "valid", "null"}

\* credentials_path: None, the empty string (string 0), a path
CredPaths == {PyNone, PyStr(0), PyStr(4)}

\* the file at the path: not there, not JSON, not text in the locale's encoding,
\* not readable (PermissionError), a JSON object
CredFiles == {"missing", "malformed", "undecodable", "unreadable", "valid"}

\* credential material: 1 is the environment's object, 2 the file's, 0 is None
EnvMaterial == 1
FileMaterial == 2
NoMaterial == 0

Returned(m) == [kind |-> "return", v |-> m, exc |-> "none"]
Raised(e) == [kind |-> "raise", v |-> NoMaterial, exc |-> e]
NotCalled == [kind |-> "none", v |-> NoMaterial, exc |-> "none"]

\* bool(x) of a str or None
Truthy(x) == x.ty = "str" /\ x.v # 0

\* the second source: the file at credentials_path
FromCredentialsFile(p, f) ==
    IF Truthy(p) /\ f # "missing"
    THEN CASE f = "valid" -> Returned(FileMaterial)
           [] f = "undecodable" -> Raised("UnicodeDecodeError")
           [] OTHER -> Returned(NoMaterial)
    ELSE Returned(NoMaterial)

GetFirebaseCredentials(e, p, f) ==
    CASE e = "valid" -> Returned(EnvMaterial)
      [] e = "null" -> Returned(NoMaterial)
      [] OTHER -> FromCredentialsFile(p, f)

----------------------------------------------------------------------------
(* Actions of the configuration manager *)

ParkedCfg ==
    /\ file = MissingFile
    /\ cm = NoManager
    /\ saveResult = "none"
    /\ beforeSave = Defaults
    /\ cm2 = NoManager

ParkedCred ==
    /\ env = "unset"
    /\ credPath = PyNone
    /\ credFile = "missing"
    /\ credResult = NotCalled

Threads == 1..NThreads

ParkedConn ==
    /\ clsInstance = 0
    /\ nObjects = 0
    /\ initialized = <<>>
    /\ pc = [t \in Threads |-> "done"]
    /\ tmp = [t \in Threads |-> 0]
    /\ self = [t \in Threads |-> 0]

ParkedHandle ==
    /\ status = "Uninitialized"
    /\ handle = 0
    /\ constructions = 0
    /\ attempts = 0
    /\ calls = 0
    /\ failures = 0
    /\ credsOk = FALSE

\* cm = ConfigManager(path)
Construct ==
    /\ cm.status = "none"
    /\ cm' = NewConfigManager(file)
    /\ UNCHANGED <<file, saveResult, beforeSave, cm2, credVars, connVars, handleVars>>

\* cm.save_config() writing the file
SaveConfig ==
    /\ cm.status = "ok"
    /\ saveResult = "none"
    /\ beforeSave' = Bundle(cm)
    /\ file' = SavedFile(cm)
    /\ saveResult' = "ok"
    /\ UNCHANGED <<cm, cm2, credVars, connVars, handleVars>>

\* cm.save_config() when open() raises: logged and raised again, nothing written
SaveConfigRaises ==
    /\ cm.status = "ok"
    /\ saveResult = "none"
    /\ beforeSave' = Bundle(cm)
    /\ saveResult' = "raised"
    /\ UNCHANGED <<file, cm, cm2, credVars, connVars, handleVars>>

\* cm2 = ConfigManager(path), after the save
Reconstruct ==
    /\ saveResult # "none"
    /\ cm2.status = "none"
    /\ cm2' = NewConfigManager(file)
    /\ UNCHANGED <<file, cm, saveResult, beforeSave, credVars, connVars, handleVars>>

Init ==
    /\ file \in ConfigFiles
    /\ cm = NoManager
    /\ saveResult = "none"
    /\ beforeSave = Defaults
    /\ cm2 = NoManager
    /\ ParkedCred /\ ParkedConn /\ ParkedHandle

Next == Construct \/ SaveConfig \/ SaveConfigRaises \/ Reconstruct

Spec == Init /\ [][Next]_vars

----------------------------------------------------------------------------
(* Credential resolution *)

ResolveCredentials ==
    /\ credResult = NotCalled
    /\ credResult' = GetFirebaseCredentials(env, credPath, credFile)
    /\ UNCHANGED <<env, credPath, credFile, cfgVars, connVars, handleVars>>

InitCreds ==
    /\ env \in EnvValues
    /\ credPath \in CredPaths
    /\ credFile \in CredFiles
    /\ credResult = NotCalled
    /\ ParkedCfg /\ ParkedConn /\ ParkedHandle

NextCreds == ResolveCredentials

SpecCreds == InitCreds /\ [][NextCreds]_vars

----------------------------------------------------------------------------
(* FirebaseManager(): __new__ and __init__, one step per read or write of shared state *)

\* if cls._instance is None
NewCheck(t) ==
    /\ pc[t] = "new_check"
    /\ pc' = [pc EXCEPT ![t] = IF clsInstance = 0 THEN "new_alloc" ELSE "new_return"]
    /\ UNCHANGED <<clsInstance, nObjects, initialized, tmp, self, cfgVars, credVars, handleVars>>

\* super(FirebaseManager, cls).__new__(cls): a new object, with no attribute yet
NewAlloc(t) ==
    /\ pc[t] = "new_alloc"
    /\ nObjects' = nObjects + 1
    /\ initialized' = Append(initialized, "unset")
    /\ tmp' = [tmp EXCEPT ![t] = nObjects + 1]
    /\ pc' = [pc EXCEPT ![t] = "new_store"]
    /\ UNCHANGED <<clsInstance, self, cfgVars, credVars, handleVars>>

\* cls._instance = <that object>
NewStore(t) ==
    /\ pc[t] = "new_store"
    /\ clsInstance' = tmp[t]
    /\ pc' = [pc EXCEPT ![t] = "new_return"]
    /\ UNCHANGED <<nObjects, initialized, tmp, self, cfgVars, credVars, handleVars>>

\* return cls._instance
NewReturn(t) ==
    /\ pc[t] = "new_return"
    /\ self' = [self EXCEPT ![t] = clsInstance]
    /\ pc' = [pc EXCEPT ![t] = "init_check"]
    /\ UNCHANGED <<clsInstance, nObjects, initialized, tmp, cfgVars, credVars, handleVars>>

\* if not hasattr(self, 'initialized')
InitCheck(t) ==
    /\ pc[t] = "init_check"
    /\ pc' = [pc EXCEPT ![t] = IF initialized[self[t]] = "unset" THEN "init_set" ELSE "done"]
    /\ UNCHANGED <<clsInstance, nObjects, initialized, tmp, self, cfgVars, credVars, handleVars>>

\* self.initialized = False
InitSet(t) ==
    /\ pc[t] = "init_set"
    /\ initialized' = [initialized EXCEPT ![self[t]] = "False"]
    /\ pc' = [pc EXCEPT ![t] = "done"]
    /\ UNCHANGED <<clsInstance, nObjects, tmp, self, cfgVars, credVars, handleVars>>

InitConn ==
    /\ clsInstance = 0
    /\ nObjects = 0
    /\ initialized = <<>>
    /\ pc = [t \in Threads |-> "new_check"]
    /\ tmp = [t \in Threads |-> 0]
    /\ self = [t \in Threads |-> 0]
    /\ ParkedCfg /\ ParkedCred /\ ParkedHandle

NextConn ==
    \E t \in Threads :
        NewCheck(t) \/ NewAlloc(t) \/ NewStore(t) \/ NewReturn(t) \/ InitCheck(t) \/ InitSet(t)

SpecConn == InitConn /\ [][NextConn]_vars

----------------------------------------------------------------------------
(* GetHandle: the connection state machine, as section 4.2 of the specification states it *)

\* attempts one call may make: the configured max_retries
MaxRetries == DatabaseConfig.max_retries.v

RetryableOnlyFresh == {"Uninitialized"}

\* the states from which a call starts an initialization
Retryable == {"Uninitialized", "Failed"}

\* a call once Ready: the cached handle, no further work
GetHandleCached ==
    /\ status = "Ready"
    /\ calls < MaxCalls
    /\ calls' = calls + 1
    /\ UNCHANGED <<status, handle, constructions, attempts, failures, credsOk,
                   cfgVars, credVars, connVars>>

\* a call before the first success, or after a failed one
GetHandleBegin ==
    /\ status \in Retryable
    /\ calls < MaxCalls
    /\ calls' = calls + 1
    /\ status' = "Initializing"
    /\ attempts' = 0
    /\ UNCHANGED <<handle, constructions, failures, credsOk, cfgVars, credVars, connVars>>

\* credentials resolved and the client constructed
AttemptSucceeds ==
    /\ status = "Initializing"
    /\ attempts < MaxRetries
    /\ credsOk
    /\ attempts' = attempts + 1
    /\ constructions' = constructions + 1
    /\ handle' = constructions + 1
    /\ status' = "Ready"
    /\ UNCHANGED <<calls, failures, credsOk, cfgVars, credVars, connVars>>

\* credentials absent, or the client construction raises
AttemptFails ==
    /\ status = "Initializing"
    /\ attempts < MaxRetries
    /\ attempts' = attempts + 1
    /\ UNCHANGED <<status, handle, constructions, calls, failures, credsOk,
                   cfgVars, credVars, connVars>>

\* the attempts are used up: the call fails
GetHandleFails ==
    /\ status = "Initializing"
    /\ attempts >= MaxRetries
    /\ status' = "Failed"
    /\ failures' = failures + 1
    /\ UNCHANGED <<handle, constructions, attempts, calls, credsOk, cfgVars, credVars, connVars>>

\* the credentials appear (a file is fixed) or go away
CredentialsChange ==
    /\ credsOk' = ~credsOk
    /\ UNCHANGED <<status, handle, constructions, attempts, calls, failures,
                   cfgVars, credVars, connVars>>

InitHandle ==
    /\ status = "Uninitialized"
    /\ handle = 0
    /\ constructions = 0
    /\ attempts = 0
    /\ calls = 0
    /\ failures = 0
    /\ credsOk \in BOOLEAN
    /\ ParkedCfg /\ ParkedCred /\ ParkedConn

NextHandle ==
    \/ GetHandleCached
    \/ GetHandleBegin
    \/ AttemptSucceeds
    \/ AttemptFails
    \/ GetHandleFails
    \/ CredentialsChange

SpecHandle == InitHandle /\ [][NextHandle]_vars

----------------------------------------------------------------------------
(* The data model's invariants, as the specification states them *)

\* x is a number in the interval; the bounds are in ten-thousandths
Above(x, lo) == IsNum(x) /\ Num(x) > lo
AtLeast(x, lo) == IsNum(x) /\ Num(x) >= lo
AtMost(x, hi) == IsNum(x) /\ Num(x) <= hi

TimeoutValid(m) == Above(m.db_config.timeout_seconds, 0)
RetriesValid(m) == AtLeast(m.db_config.max_retries, 0)
SimilarityValid(m) ==
    Above(m.proc_config.similarity_threshold, 0) /\ AtMost(m.proc_config.similarity_threshold, Scale)
CorrelationValid(m) ==
    AtLeast(m.proc_config.correlation_threshold, -Scale)
    /\ AtMost(m.proc_config.correlation_threshold, Scale)
BatchValid(m) == Above(m.proc_config.batch_size, 0)
MinDegreeValid(m) == AtLeast(m.graph_config.min_node_degree, 0)
ClusterValid(m) == Above(m.graph_config.max_cluster_size, 0)

\* the order in which Validate is said to check them
StatedOrder ==
    <<"timeout_seconds", "max_retries", "similarity_threshold", "correlation_threshold",
      "batch_size", "min_node_degree", "max_cluster_size">>

StatedValid(m, i) ==
    CASE i = 1 -> TimeoutValid(m)
      [] i = 2 -> RetriesValid(m)
      [] i = 3 -> SimilarityValid(m)
      [] i = 4 -> CorrelationValid(m)
      [] i = 5 -> BatchValid(m)
      [] i = 6 -> MinDegreeValid(m)
      [] OTHER -> ClusterValid(m)

Violated(m) == {i \in 1..7 : ~StatedValid(m, i)}

Least(S) == CHOOSE i \in S : \A j \in S : i <= j

\* m was constructed and its _load_config returned
Validated(m) == m.status # "none" /\ m.exc.at # "load"

\* the section of file f is a JSON object with a key no dataclass declares
UnknownKeyIn(f, s) == f.data[s].present /\ f.data[s].kv[Unknown] # JAbsent

\* the section of file f gives a numeric field a string or null
TypeMismatchIn(f, s) ==
    \E k \in Fields(s) \ {"project_id", "credentials_path", "collection_prefix"} :
        f.data[s].kv[k].tok \in {"string", "null"}

SectionOf(m, s) ==
    CASE s = "database" -> m.db_config
      [] s = "processing" -> m.proc_config
      [] OTHER -> m.graph_config

\* cm was constructed from the file as it is now (nothing was saved since)
Loaded == cm.status # "none" /\ saveResult = "none"

----------------------------------------------------------------------------
(* Claims *)

\* C1: however N concurrent first callers of FirebaseManager() interleave, one
\* manager object is created and every caller obtains that same object.
C1_OneManagerForAllCallers ==
    /\ nObjects <= 1
    /\ \A t1, t2 \in Threads : (self[t1] # 0 /\ self[t2] # 0) => self[t1] = self[t2]

\* C2: a ConfigManager whose construction succeeded satisfies every invariant of
\* DatabaseConfig and ProcessingConfig: timeout > 0, retries >= 0, batch size > 0,
\* max workers > 0, chunk size > 0, default sample size > 0, similarity in (0,1],
\* correlation in [-1,1].
C2_ConstructedBundleSatisfiesDataModel ==
    cm.status = "ok" =>
        /\ TimeoutValid(cm) /\ RetriesValid(cm) /\ BatchValid(cm)
        /\ Above(cm.proc_config.max_workers, 0)
        /\ Above(cm.proc_config.chunk_size, 0)
        /\ Above(cm.proc_config.default_sample_size, 0)
        /\ SimilarityValid(cm) /\ CorrelationValid(cm)

\* C3: when the file gives a field a value of the wrong type, construction completes
\* without raising, the section concerned keeps its defaults, and no TypeError leaves
\* _validate_configs.
C3_TypeMismatchKeepsDefaults ==
    Loaded =>
        /\ cm.exc.kind # "TypeError"
        /\ \A s \in SectionNames :
              (file.kind = "object" /\ TypeMismatchIn(file, s)) =>
                  (cm.status = "ok" /\ SectionOf(cm, s) = SectionOf(Defaults, s))

\* C4: when a section of the file holds an unknown key, exactly that section keeps its
\* defaults and every other well-formed section of the file overrides its own, before
\* or after the malformed one.
C4_OnlyMalformedSectionKeepsDefaults ==
    (Loaded /\ file.kind = "object") =>
        \A s \in SectionNames :
            /\ UnknownKeyIn(file, s) => SectionOf(cm, s) = SectionOf(Defaults, s)
            /\ (file.data[s].present /\ ~UnknownKeyIn(file, s)
                /\ \E s2 \in SectionNames : UnknownKeyIn(file, s2))
                  => SectionOf(cm, s) = FromSection(SectionOf(Defaults, s), file.data[s])

\* C5: validation checks timeout, retries, similarity, correlation, batch size, min
\* degree, max cluster size in that order and stops at the first one that does not
\* hold: the failure raised is the one of the earliest violated invariant (an
\* AssertionError when the value is a number out of range), and a bundle that violates
\* none passes, validation leaving the loaded bundle as it was.
C5_FirstViolationRaised ==
    /\ \A m \in {cm, cm2} :
          Validated(m) =>
              IF Violated(m) = {} THEN m.status = "ok" /\ m.exc = NoExc
              ELSE /\ m.status = "raised"
                   /\ m.exc.at = StatedOrder[Least(Violated(m))]
                   /\ (m.exc.kind = "AssertionError"
                         <=> IsNum(Checked(Bundle(m), StatedOrder[Least(Violated(m))])))
                   /\ m.exc.kind \in {"AssertionError", "TypeError"}
    /\ Loaded => Bundle(cm) = LoadConfig(file, Defaults).b

\* C5 witness: a bundle that violates two invariants was rejected by an AssertionError
C5_Witness_TwoViolations ==
    /\ cm.status = "raised"
    /\ cm.exc.kind = "AssertionError"
    /\ Cardinality(Violated(cm)) >= 2
    /\ cm.exc.at # "timeout_seconds"

\* C6: save_config leaves the manager's sections as they were, and a ConfigManager
\* constructed on the same path after a successful save holds, field by field in all
\* three sections, the bundle that was saved.
C6_SaveLoadRoundTrip ==
    /\ saveResult # "none" => Bundle(cm) = beforeSave
    /\ (saveResult = "ok" /\ cm2.status # "none") =>
          (cm2.status = "ok" /\ Bundle(cm2) = beforeSave)

\* C6 witness: a bundle with a float, an int and a str that differ from the defaults
\* came back from the file
C6_Witness_Reloaded ==
    /\ saveResult = "ok"
    /\ cm2.status = "ok"
    /\ cm2.graph_config.community_resolution = PyFloat(20000)
    /\ cm2.graph_config.min_node_degree = PyInt(0)
    /\ cm2.db_config.credentials_path = PyStr(4)

\* C7: get_firebase_credentials returns the material of the first of (1) the
\* environment blob, (2) the file at credentials_path that is present and parses, and
\* returns None without raising when neither does.
C7_FirstParsableSource ==
    credResult # NotCalled =>
        /\ credResult.kind = "return"
        /\ credResult.v =
              CASE env = "valid" -> EnvMaterial
                [] env = "null" -> NoMaterial
                [] Truthy(credPath) /\ credFile = "valid" -> FileMaterial
                [] OTHER -> NoMaterial

\* C8: a failed GetHandle call leaves the manager able to start a new initialization,
\* one call makes at most max_retries attempts, a client is constructed at most once,
\* and once Ready the state, the handle and the number of constructions stay.
C8_RetryAfterFailureAndCachedHandle ==
    /\ attempts <= MaxRetries
    /\ constructions <= 1
    /\ status = "Ready" <=> handle # 0
    /\ status = "Ready" => constructions = 1 /\ handle = 1
    /\ (status = "Failed" /\ calls < MaxCalls) => ENABLED GetHandleBegin

\* C8 witness: the manager is Ready after a call that failed, and a later call was
\* served from the cache
C8_Witness_ReadyAfterFailure ==
    /\ status = "Ready"
    /\ failures >= 1
    /\ calls >= 3
    /\ constructions = 1

\* C9: a missing file or an omitted section leaves the section at its defaults; a
\* section present with some of its fields takes the file's value for each field
\* listed and the default for each field not listed.
C9_FieldByFieldMerge ==
    Loaded =>
        /\ file.kind = "missing" => Bundle(cm) = Defaults
        /\ file.kind = "object" =>
              \A s \in SectionNames :
                  /\ ~file.data[s].present => SectionOf(cm, s) = SectionOf(Defaults, s)
                  /\ (file.data[s].present /\ ~UnknownKeyIn(file, s)) =>
                        \A k \in Fields(s) :
                            SectionOf(cm, s)[k] =
                                IF file.data[s].kv[k] = JAbsent THEN SectionOf(Defaults, s)[k]
                                ELSE JsonLoadValue(file.data[s].kv[k])

\* C10: with every other field valid, validation passes exactly when the similarity
\* threshold is in (0,1] and the correlation threshold is in [-1,1].
C10_ThresholdIntervals ==
    (Validated(cm) /\ TimeoutValid(cm) /\ RetriesValid(cm) /\ BatchValid(cm)
     /\ MinDegreeValid(cm) /\ ClusterValid(cm)) =>
        (cm.status = "ok" <=>
            /\ IsNum(cm.proc_config.similarity_threshold)
            /\ 0 < Num(cm.proc_config.similarity_threshold)
            /\ Num(cm.proc_config.similarity_threshold) <= 10000
            /\ IsNum(cm.proc_config.correlation_threshold)
            /\ -10000 <= Num(cm.proc_config.correlation_threshold)
            /\ Num(cm.proc_config.correlation_threshold) <= 10000)

\* C10 witness: similarity 1.0 with correlation -1.0, both endpoints, was accepted
C10_Witness_EndpointsAccepted ==
    /\ cm.status = "ok"
    /\ cm.proc_config.similarity_threshold = PyFloat(10000)
    /\ cm.proc_config.correlation_threshold = PyFloat(-10000)

====
